---- MODULE Spec2Model ----
(***************************************************************************)
(* A model of libretranslate/app.py: the /translate handler, the           *)
(* translatability classifier, the alternative filter and the rate-limit   *)
(* rule builder.                                                           *)
(*                                                                         *)
(* Strings are sequences of Unicode code points.  A missing parameter      *)
(* (Python None) is carried by a "kind" field, never by a value of another *)
(* type.                                                                   *)
(***************************************************************************)
EXTENDS Integers, Sequences, FiniteSets, TLC

VARIABLES
    \* ---- the language registry and the translator behind it
    languages,          \* load_languages(): codes, in registry order
    translations,       \* <<from, to>> pairs for which get_translation is not None
    engine,             \* the translator's ranked candidate stems
    \* ---- one /translate request and the handler's locals
    request,
    pc,                 \* "start" | "loop" | "done" (handler), "idle" otherwise
    src_texts, translatable, src_lang, targets, num_alternatives,
    ti, si,             \* position of the target / segment loops
    batch_results, batch_alternatives,
    req_cost,
    engine_calls,       \* translator.hypotheses calls made for this request
    engine_raised,      \* a translator.hypotheses call raised
    response,
    \* ---- rate-limit rules
    args, api_keys_db, rules, req_api_key, resolved, lpc,
    \* ---- classifier and alternative filter applied to drawn inputs
    cl_input, cl_result, cpc

hvars == <<languages, translations, engine, request, pc, src_texts, translatable,
           src_lang, targets, num_alternatives, ti, si, batch_results,
           batch_alternatives, req_cost, engine_calls, engine_raised, response>>
lvars == <<args, api_keys_db, rules, req_api_key, resolved, lpc>>
cvars == <<cl_input, cl_result, cpc>>
vars  == <<hvars, lvars, cvars>>

----------------------------------------------------------------------------
(* Bounds *)

MaxSegs == 2        \* segments in a list-valued q
MaxAlt == 3         \* largest requested number of alternatives
MaxHyp == 4         \* longest candidate list a translator holds
MaxDecay == 8       \* largest hourly_req_limit_decay
MaxTextLen == 3     \* longest text given to the classifier alone
MaxList == 2        \* longest list given to the classifier alone

Min(a, b) == IF a < b THEN a ELSE b
Max(a, b) == IF a > b THEN a ELSE b

----------------------------------------------------------------------------
(* Code points *)

SPACE == 32
GRIN == 128512                  \* U+1F600
HANDS == 128591                 \* U+1F64F, the end the emoticon range leaves out
VS16 == 65039                   \* U+FE0F, the end the variation range leaves out
SUN == 9728                     \* U+2600
KEYCAP == 8400                  \* U+20D0

\* range(a, b): a .. b-1
Range(a, b) == a .. (b - 1)

emojis ==
    {SPACE}
    \cup Range(128512, 128591)  \* Emoticons
    \cup Range(127744, 128511)  \* Misc Symbols and Pictographs
    \cup Range(128640, 128767)  \* Transport and Map
    \cup Range(9728, 9983)      \* Misc symbols
    \cup Range(9984, 10175)     \* Dingbats
    \cup Range(65024, 65039)    \* Variation Selectors
    \cup Range(129280, 129535)  \* Supplemental Symbols and Pictographs
    \cup Range(127462, 127487)  \* Flags
    \cup Range(8400, 8447)      \* Combining Diacritical Marks for Symbols

----------------------------------------------------------------------------
(* detect_translatable *)

\* a loop that returns after looking at the first character only
detect_translatable_first_char(text) ==
    IF text = <<>> THEN FALSE ELSE Head(text) \notin emojis

\* the for loop over the characters of one text
RECURSIVE detect_translatable_text(_)
detect_translatable_text(text) ==
    IF text = <<>> THEN FALSE
    ELSE IF Head(text) \notin emojis THEN TRUE
    ELSE detect_translatable_text(Tail(text))

\* any(detect_translatable(t) for t in src_texts)
RECURSIVE detect_translatable_list(_)
detect_translatable_list(texts) ==
    IF texts = <<>> THEN FALSE
    ELSE IF detect_translatable_text(Head(texts)) THEN TRUE
    ELSE detect_translatable_list(Tail(texts))

----------------------------------------------------------------------------
(* filter_unique *)

RECURSIVE filter_unique_loop(_, _)
filter_unique_loop(seq, seen) ==
    IF seq = <<>> THEN <<>>
    ELSE IF Head(seq) \in seen THEN filter_unique_loop(Tail(seq), seen)
    ELSE <<Head(seq)>> \o filter_unique_loop(Tail(seq), seen \cup {Head(seq)})

\* seen seeded without the primary translation
filter_unique_keep_primary(seq, extra) == filter_unique_loop(seq, {<<>>})

filter_unique(seq, extra) == filter_unique_loop(seq, {extra, <<>>})

----------------------------------------------------------------------------
(* Text helpers of the /translate handler *)

HI == <<104, 105>>                      \* "hi"
HI_CAP == <<72, 105>>                   \* "Hi"
AMP_ENTITY == <<38, 97, 109, 112, 59>>  \* "&amp;"

IsLower(ch) == ch \in 97..122
IsUpper(ch) == ch \in 65..90

\* html.unescape, restricted to the entity "&amp;": one pass, left to right
RECURSIVE unescape(_)
unescape(s) ==
    IF s = <<>> THEN <<>>
    ELSE IF Len(s) >= 5 /\ SubSeq(s, 1, 5) = AMP_ENTITY
         THEN <<38>> \o unescape(SubSeq(s, 6, Len(s)))
         ELSE <<Head(s)>> \o unescape(Tail(s))

\* libretranslate.language.improve_translation_formatting: the translation takes
\* the casing of the source segment's first character
improve_translation_formatting(text, value) ==
    IF text = <<>> \/ value = <<>> THEN value
    ELSE IF IsLower(text[1]) /\ IsUpper(value[1]) THEN <<value[1] + 32>> \o Tail(value)
    ELSE IF IsUpper(text[1]) /\ IsLower(value[1]) THEN <<value[1] - 32>> \o Tail(value)
    ELSE value

\* "\n".join(q.splitlines()): "\r\n" and "\r" become "\n", and the line break that
\* ends the text is dropped
RECURSIVE UniversalNewlines(_)
UniversalNewlines(s) ==
    IF s = <<>> THEN <<>>
    ELSE IF Head(s) = 13 /\ Len(s) >= 2 /\ s[2] = 10
         THEN <<10>> \o UniversalNewlines(SubSeq(s, 3, Len(s)))
    ELSE IF Head(s) = 13 THEN <<10>> \o UniversalNewlines(Tail(s))
    ELSE <<Head(s)>> \o UniversalNewlines(Tail(s))

join_splitlines(s) ==
    LET u == UniversalNewlines(s)
    IN  IF u # <<>> /\ u[Len(u)] = 10 THEN SubSeq(u, 1, Len(u) - 1) ELSE u

----------------------------------------------------------------------------
(* The language registry and the translator *)

LangName(code) ==
    CASE code = "en" -> "English"
      [] code = "es" -> "Spanish"
      [] code = "fr" -> "French"
      [] OTHER -> "?"

\* src_lang.get_translation(tgt_lang) is not None
get_translation(src, tgt) == <<src, tgt>> \in translations

TgtMark(tgt) ==
    CASE tgt = "es" -> <<49>>
      [] tgt = "fr" -> <<50>>
      [] OTHER -> <<48>>

\* the raw value of one hypothesis: empty, or a stem followed by the rendering
\* of the segment for the target
RawValue(stem, tgt, text) == IF stem = <<>> THEN <<>> ELSE stem \o TgtMark(tgt) \o text

\* translator.hypotheses(text, count): at most count values, primary first
hypotheses(tgt, text, count) ==
    [i \in 1..Min(count, Len(engine)) |-> RawValue(engine[i], tgt, text)]

----------------------------------------------------------------------------
(* /translate: parameter handling *)

q_truthy(q) ==
    CASE q.kind = "none" -> FALSE
      [] q.kind = "str" -> q.str # <<>>
      [] q.kind = "list" -> q.list # <<>>

target_truthy(t) ==
    CASE t.kind = "none" -> FALSE
      [] t.kind = "str" -> t.code # ""
      [] t.kind = "list" -> t.codes # {}

\* q after line 406
q_text(req) ==
    IF req.is_json THEN req.q.str ELSE join_splitlines(req.q.str)

\* src_texts = q if isinstance(q, list) else [q]
src_texts_of(req) == IF req.q.kind = "list" THEN req.q.list ELSE <<q_text(req)>>

\* request.req_cost = max(1, len(q))
req_cost_of(req) ==
    Max(1, IF req.q.kind = "list" THEN Len(req.q.list) ELSE Len(q_text(req)))

\* detected_src_lang["language"]
detected_language(req) ==
    IF detect_translatable_list(src_texts_of(req)) THEN req.source ELSE "en"

InRegistry(code) == \E i \in 1..Len(languages) : languages[i] = code

\* targets = [l for l in languages if l.code in target_lang]  (or == target_lang)
targets_of(req) ==
    SelectSeq(languages,
              LAMBDA c : IF req.target.kind = "list" THEN c \in req.target.codes
                         ELSE c = req.target.code)

NoText == [c \in {} |-> <<>>]
NoResponse == [status |-> 0, reason |-> "none", translatedText |-> NoText, detail |-> <<>>]

Error(status, reason, detail) ==
    [status |-> status, reason |-> reason, translatedText |-> NoText, detail |-> detail]

----------------------------------------------------------------------------
(* /translate: the handler *)

\* int(json.get("alternatives", 0)) on line 386 raises ValueError outside any try
AlternativesRaisesEarly(req) == req.is_json /\ ~req.alternatives.numeric

\* lines 393-403: the first failing parameter check, "none" when all pass
MissingReason(req) ==
    IF ~q_truthy(req.q) THEN "missing_q"
    ELSE IF req.source = "" THEN "missing_source"
    ELSE IF ~target_truthy(req.target) THEN "missing_target"
    ELSE IF ~req.alternatives.numeric THEN "alternatives_not_a_number"
    ELSE "none"

ParametersPass(req) == ~AlternativesRaisesEarly(req) /\ MissingReason(req) = "none"

Finish(resp) ==
    /\ response' = resp
    /\ pc' = "done"

handler_locals == <<src_texts, translatable, src_lang, targets, num_alternatives,
                    ti, si, batch_results, batch_alternatives, req_cost>>
environment == <<languages, translations, engine, request>>

\* line 386: the uncaught ValueError becomes the framework's 500
UnhandledValueError ==
    /\ pc = "start"
    /\ AlternativesRaisesEarly(request)
    /\ Finish(Error(500, "unhandled_exception", <<>>))
    /\ UNCHANGED <<environment, handler_locals, engine_calls, engine_raised, lvars, cvars>>

\* lines 393-403: abort(400) for a missing or malformed parameter
AbortMissing ==
    /\ pc = "start"
    /\ ~AlternativesRaisesEarly(request)
    /\ MissingReason(request) # "none"
    /\ Finish(Error(400, MissingReason(request), <<>>))
    /\ UNCHANGED <<environment, handler_locals, engine_calls, engine_raised, lvars, cvars>>

\* lines 401-416: the locals computed before the source language is looked up
SetLocals ==
    /\ num_alternatives' = Max(0, request.alternatives.n)
    /\ src_texts' = src_texts_of(request)
    /\ req_cost' = req_cost_of(request)
    /\ translatable' = detect_translatable_list(src_texts_of(request))

\* lines 418-421: abort(400) when the detected source language is not loaded
AbortSourceUnsupported ==
    /\ pc = "start"
    /\ ParametersPass(request)
    /\ ~InRegistry(detected_language(request))
    /\ SetLocals
    /\ Finish(Error(400, "source_unsupported", <<request.source>>))
    /\ UNCHANGED <<environment, src_lang, targets, ti, si, batch_results,
                   batch_alternatives, engine_calls, engine_raised, lvars, cvars>>

\* lines 424-431 and 456-457: abort(400) inside the try is caught by
\* "except Exception" and replaced by abort(500)
AbortTargetsUnsupported ==
    /\ pc = "start"
    /\ ParametersPass(request)
    /\ InRegistry(detected_language(request))
    /\ targets_of(request) = <<>>
    /\ SetLocals
    /\ src_lang' = detected_language(request)
    /\ targets' = <<>>
    /\ Finish(Error(500, "target_unsupported", <<>>))
    /\ UNCHANGED <<environment, ti, si, batch_results, batch_alternatives,
                   engine_calls, engine_raised, lvars, cvars>>

\* lines 405-434: validation passed, the loops start
BeginBatch ==
    /\ pc = "start"
    /\ ParametersPass(request)
    /\ InRegistry(detected_language(request))
    /\ targets_of(request) # <<>>
    /\ SetLocals
    /\ src_lang' = detected_language(request)
    /\ targets' = targets_of(request)
    /\ batch_results' = NoText
    /\ batch_alternatives' = <<>>
    /\ ti' = 1
    /\ si' = 1
    /\ pc' = "loop"
    /\ UNCHANGED <<environment, engine_calls, engine_raised, response, lvars, cvars>>

InLoop == pc = "loop" /\ ti <= Len(targets)

\* batch_results once line 436 has run for the current target
ResultsAtTarget ==
    IF si = 1 THEN (targets[ti] :> <<>>) @@ batch_results ELSE batch_results

\* lines 444-445
translated_text_of(text, hyps) ==
    unescape(improve_translation_formatting(text, hyps[1]))

alternatives_of(text, hyps) ==
    filter_unique([i \in 1..(Len(hyps) - 1) |->
                      unescape(improve_translation_formatting(text, hyps[i + 1]))],
                  translated_text_of(text, hyps))

\* insert(0, ...) in place of append
AppendFront(results, code, text) == [results EXCEPT ![code] = <<text>> \o @]

\* line 450: batch_results[tgt_lang.code].append(translated_text)
AppendResult(results, code, text) == [results EXCEPT ![code] = Append(@, text)]

\* the end of one pass of the inner loop
Advance ==
    IF si < Len(src_texts) THEN si' = si + 1 /\ ti' = ti
    ELSE si' = 1 /\ ti' = ti + 1

\* lines 438-440 and 456-457: no translator for the pair; the abort(400) is
\* caught by "except Exception" and replaced by abort(500)
AbortPairUnavailable ==
    /\ InLoop
    /\ ~get_translation(src_lang, targets[ti])
    /\ batch_results' = ResultsAtTarget
    /\ Finish(Error(500, "pair_unavailable",
                    <<LangName(targets[ti]), targets[ti], LangName(src_lang), src_lang>>))
    /\ UNCHANGED <<environment, src_texts, translatable, src_lang, targets,
                   num_alternatives, ti, si, batch_alternatives, req_cost,
                   engine_calls, engine_raised, lvars, cvars>>

\* lines 443 and 456-457: translator.hypotheses raises
EngineRaises ==
    /\ InLoop
    /\ get_translation(src_lang, targets[ti])
    /\ translatable
    /\ engine_calls' = engine_calls + 1
    /\ engine_raised' = TRUE
    /\ batch_results' = ResultsAtTarget
    /\ Finish(Error(500, "engine_failure", <<>>))
    /\ UNCHANGED <<environment, src_texts, translatable, src_lang, targets,
                   num_alternatives, ti, si, batch_alternatives, req_cost, lvars, cvars>>

\* lines 443-445 and 450-451: translator.hypotheses returns; an empty list makes
\* hypotheses[0] raise IndexError, which ends in abort(500) as well
TranslateSegment ==
    /\ InLoop
    /\ get_translation(src_lang, targets[ti])
    /\ translatable
    /\ engine_calls' = engine_calls + 1
    /\ LET text == src_texts[si]
           hyps == hypotheses(targets[ti], text, num_alternatives + 1)
       IN  IF hyps = <<>>
           THEN /\ batch_results' = ResultsAtTarget
                /\ Finish(Error(500, "engine_failure", <<>>))
                /\ UNCHANGED <<ti, si, batch_alternatives>>
           ELSE /\ batch_results' =
                       AppendResult(ResultsAtTarget, targets[ti], translated_text_of(text, hyps))
                /\ batch_alternatives' = Append(batch_alternatives, alternatives_of(text, hyps))
                /\ Advance
                /\ UNCHANGED <<pc, response>>
    /\ UNCHANGED <<environment, src_texts, translatable, src_lang, targets,
                   num_alternatives, req_cost, engine_raised, lvars, cvars>>

\* lines 446-451: the text goes back as it came
PassThrough ==
    /\ InLoop
    /\ get_translation(src_lang, targets[ti])
    /\ ~translatable
    /\ batch_results' = AppendResult(ResultsAtTarget, targets[ti], src_texts[si])
    /\ batch_alternatives' = Append(batch_alternatives, <<>>)
    /\ Advance
    /\ UNCHANGED <<environment, src_texts, translatable, src_lang, targets,
                   num_alternatives, req_cost, engine_calls, engine_raised, pc,
                   response, lvars, cvars>>

\* the return indented into the loops
ReturnEarly ==
    /\ pc = "loop"
    /\ Finish([status |-> 200, reason |-> "ok", translatedText |-> batch_results,
               detail |-> <<>>])
    /\ UNCHANGED <<environment, handler_locals, engine_calls, engine_raised, lvars, cvars>>

\* lines 453-455: both loops are over
Return ==
    /\ pc = "loop"
    /\ ti > Len(targets)
    /\ Finish([status |-> 200, reason |-> "ok", translatedText |-> batch_results,
               detail |-> <<>>])
    /\ UNCHANGED <<environment, handler_locals, engine_calls, engine_raised, lvars, cvars>>

----------------------------------------------------------------------------
(* Requests, registries and translators the handler is run on *)

SeqsUpTo(S, n) == UNION {[1..k -> S] : k \in 0..n}

IdleLimits ==
    /\ args = [req_limit |-> 0, hourly_req_limit |-> 0, hourly_req_limit_decay |-> 0,
               daily_req_limit |-> 0]
    /\ api_keys_db = [present |-> FALSE, rate |-> 0]
    /\ rules = <<>>
    /\ req_api_key = ""
    /\ resolved = <<>>
    /\ lpc = "idle"

IdleClassifier ==
    /\ cl_input = [kind |-> "str", str |-> <<>>, list |-> <<>>]
    /\ cl_result = FALSE
    /\ cpc = "idle"

IdleHandler ==
    /\ languages = <<>>
    /\ translations = {}
    /\ engine = <<>>
    /\ request = [is_json |-> TRUE,
                  q |-> [kind |-> "none", str |-> <<>>, list |-> <<>>],
                  source |-> "",
                  target |-> [kind |-> "none", code |-> "", codes |-> {}],
                  alternatives |-> [numeric |-> TRUE, n |-> 0]]
    /\ pc = "idle"
    /\ src_texts = <<>>
    /\ translatable = FALSE
    /\ src_lang = ""
    /\ targets = <<>>
    /\ num_alternatives = 0
    /\ ti = 0
    /\ si = 0
    /\ batch_results = NoText
    /\ batch_alternatives = <<>>
    /\ req_cost = 0
    /\ engine_calls = 0
    /\ engine_raised = FALSE
    /\ response = NoResponse

QNone == [kind |-> "none", str |-> <<>>, list |-> <<>>]
QStr(s) == [kind |-> "str", str |-> s, list |-> <<>>]
QList(l) == [kind |-> "list", str |-> <<>>, list |-> l]
TNone == [kind |-> "none", code |-> "", codes |-> {}]
TStr(c) == [kind |-> "str", code |-> c, codes |-> {}]
TList(cs) == [kind |-> "list", code |-> "", codes |-> cs]
Alt(n) == [numeric |-> TRUE, n |-> n]
AltNotANumber == [numeric |-> FALSE, n |-> 0]

AllPairs == {<<"en", "es">>, <<"en", "fr">>, <<"es", "fr">>}

\* registries: all three languages with any of the pairs, or English not loaded
Registries ==
    {[languages |-> <<"en", "es", "fr">>, translations |-> t] : t \in SUBSET AllPairs}
    \cup {[languages |-> <<"es", "fr">>, translations |-> t] : t \in SUBSET {<<"es", "fr">>}}

FullRegistry == [languages |-> <<"en", "es", "fr">>, translations |-> AllPairs]

SegPool == {<<>>, <<GRIN>>, HI}
StrPool == SegPool \cup {<<GRIN, 10>>, <<13, 10>>}
Sources == {"", "en", "es", "xx"}
Stems == {<<>>, AMP_ENTITY, <<38>>, <<98>>}

JsonRequests ==
    [is_json : {TRUE},
     q : {QNone} \cup {QStr(s) : s \in SegPool} \cup {QList(l) : l \in SeqsUpTo(SegPool, MaxSegs)},
     source : Sources,
     target : {TNone, TStr("es"), TStr("xx"), TList({}), TList({"es", "fr"}), TList({"fr", "xx"})},
     alternatives : {AltNotANumber, Alt(-1), Alt(0), Alt(1)}]

FormRequests ==
    [is_json : {FALSE},
     q : {QNone} \cup {QStr(s) : s \in StrPool},
     source : Sources,
     target : {TNone, TStr("es"), TStr("fr"), TStr("xx")},
     alternatives : {AltNotANumber, Alt(-1), Alt(0), Alt(1)}]

\* translatable requests against every translator of up to MaxHyp candidates
HypothesisRequests ==
    [is_json : {TRUE},
     q : {QList(<<HI>>), QList(<<HI_CAP, HI>>)},
     source : {"en"},
     target : {TStr("es"), TList({"es", "fr"})},
     alternatives : {Alt(n) : n \in 0..MaxAlt}]

InitHandler ==
    /\ \/ \E req \in JsonRequests \cup FormRequests, reg \in Registries,
            eng \in {<<(<<98>>)>>, <<(<<98>>), AMP_ENTITY, (<<38>>)>>} :
              /\ request = req
              /\ languages = reg.languages
              /\ translations = reg.translations
              /\ engine = eng
       \/ \E req \in HypothesisRequests, eng \in SeqsUpTo(Stems, MaxHyp) :
              /\ request = req
              /\ languages = FullRegistry.languages
              /\ translations = FullRegistry.translations
              /\ engine = eng
    /\ pc = "start"
    /\ src_texts = <<>>
    /\ translatable = FALSE
    /\ src_lang = ""
    /\ targets = <<>>
    /\ num_alternatives = 0
    /\ ti = 0
    /\ si = 0
    /\ batch_results = NoText
    /\ batch_alternatives = <<>>
    /\ req_cost = 0
    /\ engine_calls = 0
    /\ engine_raised = FALSE
    /\ response = NoResponse

Init == InitHandler /\ IdleLimits /\ IdleClassifier

Next ==
    \/ UnhandledValueError
    \/ AbortMissing
    \/ AbortSourceUnsupported
    \/ AbortTargetsUnsupported
    \/ BeginBatch
    \/ AbortPairUnavailable
    \/ EngineRaises
    \/ TranslateSegment
    \/ PassThrough
    \/ Return

Spec == Init /\ [][Next]_vars

----------------------------------------------------------------------------
(* Properties of the /translate handler *)

\* the request as sent: its segments and the target codes it asks for
InputSegments == IF request.q.kind = "list" THEN request.q.list ELSE <<request.q.str>>
RequestedCodes ==
    IF request.target.kind = "list" THEN request.target.codes ELSE {request.target.code}
ValidatedCodes == {c \in RequestedCodes : InRegistry(c)}

AllDecorative ==
    \A i \in 1..Len(InputSegments) :
        \A j \in 1..Len(InputSegments[i]) : InputSegments[i][j] \in emojis

Succeeded == pc = "done" /\ response.status = 200

\* C1: a request with all its parameters present, only decorative segments and
\* only registry languages as targets succeeds, whatever its source code: every
\* target's output is the input segments verbatim and the translator is never
\* called.
C1_PassThroughAlwaysSucceeds ==
    (/\ pc = "done"
     /\ ParametersPass(request)
     /\ AllDecorative
     /\ \A c \in RequestedCodes : InRegistry(c))
    => /\ response.status = 200
       /\ \A c \in RequestedCodes : response.translatedText[c] = InputSegments
       /\ engine_calls = 0

\* C2: all or nothing.  A raising translator.hypotheses call ends the request
\* with the 500 error and no translatedText; a response with translatedText
\* comes only after every (segment, target) pair has completed.
C2_AllOrNothing ==
    /\ engine_raised =>
          /\ pc = "done"
          /\ response.status = 500
          /\ response.reason = "engine_failure"
          /\ DOMAIN response.translatedText = {}
    /\ (response.status = 200 \/ DOMAIN response.translatedText # {}) =>
          /\ ~engine_raised
          /\ ti = Len(targets) + 1
          /\ Len(batch_alternatives) = Len(targets) * Len(src_texts)
          /\ translatable => engine_calls = Len(targets) * Len(src_texts)
          /\ \A i \in 1..Len(targets) :
                /\ targets[i] \in DOMAIN response.translatedText
                /\ Len(response.translatedText[targets[i]]) = Len(src_texts)

\* a call raised after earlier pairs of the batch had produced results
C2_Witness ==
    /\ engine_raised
    /\ engine_calls >= 2
    /\ \E c \in DOMAIN batch_results : batch_results[c] # <<>>
    /\ response.status = 500

\* C3: a registry target with no translator from the resolved source ends in a
\* 400 whose message names both languages' display names and codes.
C3_PairUnavailableIsBadRequest ==
    response.reason = "pair_unavailable" =>
        /\ response.status = 400
        /\ \E i \in 1..Len(targets) :
              response.detail = <<LangName(targets[i]), targets[i], LangName(src_lang), src_lang>>

ValidationReasons ==
    {"missing_q", "missing_source", "missing_target", "alternatives_not_a_number",
     "source_unsupported", "target_unsupported", "pair_unavailable"}

\* C4: a request rejected for a validation reason is rejected before any
\* translator.hypotheses call of that request.
C4_ValidationBeforeEngine ==
    response.reason \in ValidationReasons => engine_calls = 0

\* what the code returns for one segment and one target
ResultFor(code, text) ==
    IF detect_translatable_list(src_texts_of(request))
    THEN translated_text_of(text, hypotheses(code, text, Max(0, request.alternatives.n) + 1))
    ELSE text

PairTarget(j) == targets[((j - 1) \div Len(src_texts)) + 1]
PairText(j) == src_texts[((j - 1) % Len(src_texts)) + 1]
PairHypotheses(j) == hypotheses(PairTarget(j), PairText(j), num_alternatives + 1)
Reformatted(j) ==
    [i \in 1..Len(PairHypotheses(j)) |->
        unescape(improve_translation_formatting(PairText(j), PairHypotheses(j)[i]))]
FirstIndex(seq, x) == CHOOSE i \in 1..Len(seq) : seq[i] = x /\ \A k \in 1..(i - 1) : seq[k] # x

\* C6: for translatable input with altCount = k, every alternative list has at
\* most k entries, no two equal, none the reformatted primary and none empty,
\* and holds the surviving hypotheses in first-seen order.
C6_Alternatives ==
    translatable =>
        \A j \in 1..Len(batch_alternatives) :
            LET alts == batch_alternatives[j]
                refo == Reformatted(j)
                rest == SubSeq(refo, 2, Len(refo))
            IN  /\ Len(alts) <= num_alternatives
                /\ \A a, b \in 1..Len(alts) : a # b => alts[a] # alts[b]
                /\ \A a \in 1..Len(alts) : alts[a] # refo[1] /\ alts[a] # <<>>
                /\ \A a \in 1..Len(alts) : \E i \in 1..Len(rest) : rest[i] = alts[a]
                /\ \A i \in 1..Len(rest) :
                      (rest[i] # refo[1] /\ rest[i] # <<>>) =>
                          \E a \in 1..Len(alts) : alts[a] = rest[i]
                /\ \A a, b \in 1..Len(alts) :
                      a < b => FirstIndex(rest, alts[a]) < FirstIndex(rest, alts[b])

\* two alternatives survive out of three hypotheses, one of which was dropped
C6_Witness ==
    /\ Succeeded
    /\ translatable
    /\ \E j \in 1..Len(batch_alternatives) :
          /\ Len(batch_alternatives[j]) = 2
          /\ Len(PairHypotheses(j)) = 4

----------------------------------------------------------------------------
(* Rate-limit rules: get_req_limits and get_routes_limits *)

\* Python integers are unbounded; a value v is kept as hi * 10^6 + lo with
\* 0 <= lo < 10^6, so that the "unlimited" ceiling fits
Big(hi, lo) == [hi |-> hi, lo |-> lo]
ToBig(n) == Big(n \div 1000000, n % 1000000)
FromBig(b) == b.hi * 1000000 + b.lo
BigGeq(a, b) == a.hi > b.hi \/ (a.hi = b.hi /\ a.lo >= b.lo)

\* line 114: 9999999999999
UNLIMITED == Big(9999999, 999999)
\* 10^12
THRESHOLD == Big(1000000, 0)

HOURLY_MULTIPLIER == 60
DAILY_MULTIPLIER == 1440

RECURSIVE Pow(_, _)
Pow(b, e) == IF e = 0 THEN 1 ELSE b * Pow(b, e - 1)

\* int(x * 0.75 ** k): the product is exact in binary floating point for the
\* values met here, and int() truncates toward zero
TruncDecay(x, k) ==
    IF x >= 0 THEN (x * Pow(3, k)) \div Pow(4, k)
    ELSE -(((-x) * Pow(3, k)) \div Pow(4, k))

\* api_keys_db.lookup(api_key) is not None
lookup_found(key) == key = "k1"

\* get_req_limits(default_limit, api_keys_db, db_multiplier, 0.75 ** k)
\* (k = 0 for the callers that leave multiplier at 1)
get_req_limits(default_limit, db_multiplier, k, key) ==
    LET req_limit ==
            IF api_keys_db.present /\ key # "" /\ lookup_found(key)
            THEN ToBig(api_keys_db.rate * db_multiplier)
            ELSE default_limit
    IN  IF k = 0 THEN req_limit ELSE ToBig(TruncDecay(FromBig(req_limit), k))

Rule(tier, n, base) == [tier |-> tier, n |-> n, base |-> base]

\* lines 111-114
default_req_limit(a) == IF a.req_limit = -1 THEN UNLIMITED ELSE ToBig(a.req_limit)

\* the hourly tier tested with != 0, so that -1 is not skipped
hourly_rules_nonzero(a) ==
    IF a.hourly_req_limit # 0
    THEN [n \in 1..(a.hourly_req_limit_decay + 1) |-> Rule("hourly", n, ToBig(0))]
    ELSE <<>>

\* lines 130-132
hourly_rules(a) ==
    IF a.hourly_req_limit > 0
    THEN [n \in 1..(a.hourly_req_limit_decay + 1) |-> Rule("hourly", n, ToBig(0))]
    ELSE <<>>

\* lines 134-135
daily_rules(a) ==
    IF a.daily_req_limit > 0 THEN <<Rule("daily", 1, ToBig(0))>> ELSE <<>>

\* lines 110-137: the list of rule closures
get_routes_limits(a) ==
    <<Rule("minute", 1, default_req_limit(a))>> \o hourly_rules(a) \o daily_rules(a)

\* the multiplier applied to the configured limit as well
hourly_limits_scaled(n, key) ==
    get_req_limits(ToBig(args.hourly_req_limit * n * HOURLY_MULTIPLIER * n),
                   HOURLY_MULTIPLIER * n, n - 1, key)

\* lines 119-123: the ceiling of "{} per {} hour"
hourly_limits(n, key) ==
    get_req_limits(ToBig(args.hourly_req_limit * n), HOURLY_MULTIPLIER * n, n - 1, key)

\* lines 116-117: the ceiling of "%s per minute"
minute_limits(base, key) == get_req_limits(base, 1, 0, key)

\* lines 125-126: the ceiling of "%s per day"
daily_limits(key) == get_req_limits(ToBig(args.daily_req_limit), DAILY_MULTIPLIER, 0, key)

\* one rule evaluated for the current request
Resolve(rule, key) ==
    [tier |-> rule.tier, n |-> rule.n,
     ceiling |-> CASE rule.tier = "minute" -> minute_limits(rule.base, key)
                   [] rule.tier = "hourly" -> hourly_limits(rule.n, key)
                   [] rule.tier = "daily" -> daily_limits(key)]

LimitValues == {-1, 0, 1, 60}
Rates == {0, 1, 3}
ApiKeys == {"", "k1", "unknown"}

InitLimits ==
    /\ args \in [req_limit : LimitValues, hourly_req_limit : LimitValues,
                  hourly_req_limit_decay : 0..MaxDecay, daily_req_limit : LimitValues]
    /\ api_keys_db \in {[present |-> FALSE, rate |-> 0]}
                        \cup {[present |-> TRUE, rate |-> r] : r \in Rates}
    /\ rules = <<>>
    /\ req_api_key = ""
    /\ resolved = <<>>
    /\ lpc = "boot"

\* create_app: the rules are built once
BuildRules ==
    /\ lpc = "boot"
    /\ rules' = get_routes_limits(args)
    /\ lpc' = "serving"
    /\ UNCHANGED <<args, api_keys_db, req_api_key, resolved, hvars, cvars>>

\* the admission layer calls every rule for one request
EvaluateRules ==
    /\ lpc = "serving"
    /\ \E key \in ApiKeys :
          /\ req_api_key' = key
          /\ resolved' = [i \in 1..Len(rules) |-> Resolve(rules[i], key)]
    /\ UNCHANGED <<args, api_keys_db, rules, lpc, hvars, cvars>>

NextLimits == BuildRules \/ EvaluateRules

InitLimitsOnly == IdleHandler /\ InitLimits /\ IdleClassifier

SpecLimits == InitLimitsOnly /\ [][NextLimits]_vars

HasOverride == api_keys_db.present /\ req_api_key # "" /\ lookup_found(req_api_key)
TierRules(tier) == {i \in 1..Len(rules) : rules[i].tier = tier}
Evaluated == lpc = "serving" /\ Len(resolved) = Len(rules)

\* C8: every rule of get_routes_limits resolves to a ceiling >= 1, for every
\* request, configured limit, decay step count and requestRate.
C8_CeilingPositive ==
    \A i \in 1..Len(resolved) : BigGeq(resolved[i].ceiling, ToBig(1))

\* C9 as stated: in each tier a configured limit of -1 still yields that tier's
\* rule, and the rule resolves to a ceiling >= 10^12.
C9_UnlimitedEveryTier ==
    Evaluated =>
        /\ args.req_limit = -1 =>
              \E i \in TierRules("minute") : BigGeq(resolved[i].ceiling, THRESHOLD)
        /\ args.hourly_req_limit = -1 =>
              \E i \in TierRules("hourly") : BigGeq(resolved[i].ceiling, THRESHOLD)
        /\ args.daily_req_limit = -1 =>
              \E i \in TierRules("daily") : BigGeq(resolved[i].ceiling, THRESHOLD)

\* C9 amended: only the minute tier maps -1 to the large ceiling: its rule is
\* always there and resolves to 9999999999999 (>= 10^12) for a request without
\* an override in the directory; an hourly or daily limit of -1 yields no rule.
C9_UnlimitedMinuteOnly ==
    lpc = "serving" =>
        /\ TierRules("minute") = {1}
        /\ (args.req_limit = -1 /\ Evaluated /\ ~HasOverride) =>
              /\ resolved[1].ceiling = Big(9999999, 999999)
              /\ BigGeq(resolved[1].ceiling, THRESHOLD)
        /\ args.hourly_req_limit = -1 => TierRules("hourly") = {}
        /\ args.daily_req_limit = -1 => TierRules("daily") = {}

\* every tier is configured -1 and a request without a key has been evaluated
C9_Witness ==
    /\ Evaluated
    /\ args.req_limit = -1
    /\ args.hourly_req_limit = -1
    /\ args.daily_req_limit = -1
    /\ req_api_key = ""
    /\ Len(resolved) = 1

HourlySteps == 1..(args.hourly_req_limit_decay + 1)

\* C10 as stated: with hourlyLimit > 0 there is one hourly rule per n in
\* 1..hourlyDecaySteps+1, and rule n resolves to
\* hourlyLimit * n * (60 * n) * 0.75^(n-1), with or without an API key.
C10_HourlyCeilingScaled ==
    (lpc = "serving" /\ args.hourly_req_limit > 0) =>
        /\ {rules[i].n : i \in TierRules("hourly")} = HourlySteps
        /\ Cardinality(TierRules("hourly")) = Cardinality(HourlySteps)
        /\ Evaluated =>
              \A i \in TierRules("hourly") :
                  LET n == rules[i].n
                  IN  resolved[i].ceiling =
                          ToBig(TruncDecay(args.hourly_req_limit * n * 60 * n, n - 1))

\* C10 amended: with hourlyLimit > 0 there is one hourly rule per n in
\* 1..hourlyDecaySteps+1; without an override in the directory rule n resolves
\* to int(hourlyLimit * n * 0.75^(n-1)), the multiplier playing no part; with an
\* override of requestRate r it resolves to int(r * (60 * n) * 0.75^(n-1)).
C10_HourlyCeiling ==
    (lpc = "serving" /\ args.hourly_req_limit > 0) =>
        /\ {rules[i].n : i \in TierRules("hourly")} = HourlySteps
        /\ Cardinality(TierRules("hourly")) = Cardinality(HourlySteps)
        /\ Evaluated =>
              \A i \in TierRules("hourly") :
                  LET n == rules[i].n
                  IN  /\ resolved[i].tier = "hourly"
                      /\ resolved[i].n = n
                      /\ resolved[i].ceiling =
                            IF HasOverride
                            THEN ToBig(TruncDecay(api_keys_db.rate * 60 * n, n - 1))
                            ELSE ToBig(TruncDecay(args.hourly_req_limit * n, n - 1))

\* three hourly steps evaluated for a key with an override
C10_Witness ==
    /\ Evaluated
    /\ args.hourly_req_limit = 60
    /\ args.hourly_req_limit_decay = 2
    /\ HasOverride
    /\ api_keys_db.rate = 3
    /\ \E i \in TierRules("hourly") : resolved[i].n = 3 /\ resolved[i].ceiling = ToBig(303)

----------------------------------------------------------------------------
(* detect_translatable on drawn inputs *)

CharSample == {SPACE, GRIN, HANDS, VS16, SUN, KEYCAP, 104}
ListChars == {SPACE, GRIN, 104}

\* lines 145-154: a list goes through any(), a string through the loop
detect_translatable(src) ==
    IF src.kind = "list" THEN detect_translatable_list(src.list)
    ELSE detect_translatable_text(src.str)

InitClassifier ==
    /\ cl_input \in {QStr(s) : s \in SeqsUpTo(CharSample, MaxTextLen)}
                     \cup {QList(l) : l \in SeqsUpTo(SeqsUpTo(ListChars, MaxTextLen - 1), MaxList)}
    /\ cl_result = FALSE
    /\ cpc = "ready"

Classify ==
    /\ cpc = "ready"
    /\ cl_result' = detect_translatable(cl_input)
    /\ cpc' = "done"
    /\ UNCHANGED <<cl_input, hvars, lvars>>

NextClassifier == Classify

InitClassifierOnly == IdleHandler /\ IdleLimits /\ InitClassifier

SpecClassifier == InitClassifierOnly /\ [][NextClassifier]_vars

Decorative(text) == \A j \in 1..Len(text) : text[j] \in emojis

\* C7: detect_translatable is false for a text of decorative code points only
\* (the empty text too) and true for a text with a code point outside the set;
\* for a list it is true exactly when some segment is translatable, so false
\* for the empty list.
C7_Classifier ==
    cpc = "done" =>
        cl_result = IF cl_input.kind = "list"
                    THEN \E i \in 1..Len(cl_input.list) : ~Decorative(cl_input.list[i])
                    ELSE ~Decorative(cl_input.str)

\* a list whose first segment is decorative and whose second is not
C7_Witness ==
    /\ cpc = "done"
    /\ cl_input.kind = "list"
    /\ Len(cl_input.list) = 2
    /\ cl_input.list[1] # <<>>
    /\ Decorative(cl_input.list[1])
    /\ ~Decorative(cl_input.list[2])
    /\ cl_result

====
